---- MODULE Spec2Model ----
(***************************************************************************)
(* TaskTrack-AP: the in-memory task domain (tasks.py), the sort strategies *)
(* (strategies.py) and the facade that composes them (facade.py).          *)
(*                                                                         *)
(* Time is counted in minutes since the process started, which the model   *)
(* places at 2026-01-01T00:00:00 UTC; every reading of the clock is one    *)
(* minute after the reading before it.                                     *)
(***************************************************************************)
EXTENDS Integers, Sequences, FiniteSets, TLC

(* ------------------------------ bounds -------------------------------- *)

\* most tasks the repository is let to hold
MaxTasks == 3

(* ------------------------- loosely typed values ------------------------ *)
\* A value of a request mapping / keyword argument.  Strings the code
\* operates on (lower(), int()) are sequences of one-character strings;
\* a title is only stored, and is kept as opaque text.

Absent == [kind |-> "absent"]
PyNone == [kind |-> "none"]
PyInt(n) == [kind |-> "int", val |-> n]
PyBool(b) == [kind |-> "bool", b |-> b]
\* the float n/10
PyFloat(n) == [kind |-> "float", tenths |-> n]
PyStr(s) == [kind |-> "str", s |-> s]
PyText(t) == [kind |-> "text", text |-> t]

UpperChars == <<"A","B","C","D","E","F","G","H","I","J","K","L","M",
                "N","O","P","Q","R","S","T","U","V","W","X","Y","Z">>
LowerChars == <<"a","b","c","d","e","f","g","h","i","j","k","l","m",
                "n","o","p","q","r","s","t","u","v","w","x","y","z">>
DigitChars == <<"0","1","2","3","4","5","6","7","8","9">>

LowerChar(c) ==
    IF \E i \in 1..26 : UpperChars[i] = c
    THEN LowerChars[CHOOSE i \in 1..26 : UpperChars[i] = c]
    ELSE c

\* str.lower()
StrLower(s) == [i \in 1..Len(s) |-> LowerChar(s[i])]

IsDigit(c) == \E i \in 1..10 : DigitChars[i] = c
DigitVal(c) == (CHOOSE i \in 1..10 : DigitChars[i] = c) - 1

RECURSIVE StripLeft(_)
StripLeft(s) == IF s # <<>> /\ Head(s) = " " THEN StripLeft(Tail(s)) ELSE s

RECURSIVE StripRight(_)
StripRight(s) ==
    IF s # <<>> /\ s[Len(s)] = " " THEN StripRight(SubSeq(s, 1, Len(s) - 1)) ELSE s

RECURSIVE DigitsVal(_)
DigitsVal(s) ==
    IF s = <<>> THEN 0 ELSE 10 * DigitsVal(SubSeq(s, 1, Len(s) - 1)) + DigitVal(s[Len(s)])

Ok(v) == [ok |-> TRUE, val |-> v]
Raise(e) == [ok |-> FALSE, err |-> e]

\* int(str): surrounding blanks, an optional sign, then one or more digits
IntOfStr(s) ==
    LET t == StripRight(StripLeft(s))
        signed == t # <<>> /\ Head(t) \in {"+", "-"}
        d == IF signed THEN Tail(t) ELSE t
    IN  IF d = <<>> \/ \E i \in 1..Len(d) : ~IsDigit(d[i])
        THEN Raise("ValueError")
        ELSE Ok(IF signed /\ Head(t) = "-" THEN 0 - DigitsVal(d) ELSE DigitsVal(d))

\* int(float) that rounds down
IntOfFloatFloor(n) == n \div 10

\* int(float): truncation toward zero
IntOfFloat(n) == IF n >= 0 THEN n \div 10 ELSE 0 - ((0 - n) \div 10)

\* the builtin int(v)
IntOf(v) ==
    CASE v.kind = "int" -> Ok(v.val)
      [] v.kind = "bool" -> Ok(IF v.b THEN 1 ELSE 0)
      [] v.kind = "float" -> Ok(IntOfFloat(v.tenths))
      [] v.kind = "str" -> IntOfStr(v.s)
      [] OTHER -> Raise("TypeError")

\* mapping.get(key, default)
Get(m, key, default) == IF m[key] = Absent THEN default ELSE m[key]

\* truthiness of a value, as `or` tests it
Truthy(v) ==
    CASE v.kind = "none" -> FALSE
      [] v.kind = "int" -> v.val # 0
      [] v.kind = "bool" -> v.b
      [] v.kind = "float" -> v.tenths # 0
      [] v.kind = "str" -> v.s # <<>>
      [] OTHER -> TRUE

(* ------------------------------- tasks --------------------------------- *)

\* datetime(2099, 12, 31), in minutes since the start of the process
FarFuture == 38918880

DefaultPriority == 1
DefaultMinutes == 30
DefaultTitle == PyText("Tarefa inicial do plano")

\* Task.__init__; id stands for the identity of the object
Task(cls, id, title, now) ==
    [id |-> id, cls |-> cls, title |-> title, created_at |-> now, done |-> FALSE]

SimpleTask(id, title, now) == Task("SimpleTask", id, title, now)

PriorityTask(id, title, priority, now) ==
    Task("PriorityTask", id, title, now) @@ [priority |-> priority]

\* (a minutes_from_now that takes the deadline past the year 9999 makes
\* timedelta or the addition raise OverflowError before anything is stored;
\* such numbers lie beyond the integers of the model and are not drawn)
DeadlineTask(id, title, minutes_from_now, now) ==
    Task("DeadlineTask", id, title, now) @@ [deadline |-> now + minutes_from_now]

HasAttr(t, a) == a \in DOMAIN t

\* Task.to_dict and its overrides
ToDict(t) ==
    LET base == [type |-> t.cls, title |-> t.title,
                 created_at |-> <<t.created_at, "Z">>, done |-> t.done]
    IN  CASE t.cls = "PriorityTask" -> base @@ [priority |-> t.priority]
          [] t.cls = "DeadlineTask" -> base @@ [deadline |-> <<t.deadline, "Z">>]
          [] OTHER -> base


\* create_task that compares task_type as it was given
FactoryCreateTaskAsGiven(task_type, kwargs, id, now) ==
    IF Truthy(task_type) /\ task_type.kind # "str"
    THEN Raise("AttributeError")
    ELSE
      LET tt == IF Truthy(task_type) THEN task_type.s ELSE <<>>
          p == IntOf(Get(kwargs, "priority", PyInt(DefaultPriority)))
          m == IntOf(Get(kwargs, "minutes_from_now", PyInt(DefaultMinutes)))
      IN  IF kwargs.title = Absent THEN Raise("KeyError")
          ELSE IF tt = <<"p","r","i","o","r","i","t","y">>
          THEN IF p.ok THEN Ok(PriorityTask(id, kwargs.title, p.val, now)) ELSE p
          ELSE IF tt = <<"d","e","a","d","l","i","n","e">>
          THEN IF m.ok THEN Ok(DeadlineTask(id, kwargs.title, m.val, now)) ELSE m
          ELSE Ok(SimpleTask(id, kwargs.title, now))

\* TaskFactory.create_task(task_type, **kwargs); kwargs holds Absent for a
\* keyword that was not passed
FactoryCreateTask(task_type, kwargs, id, now) ==
    IF Truthy(task_type) /\ task_type.kind # "str"
    THEN Raise("AttributeError")
    ELSE
      LET tt == IF Truthy(task_type) THEN StrLower(task_type.s) ELSE <<>>
          p == IntOf(Get(kwargs, "priority", PyInt(DefaultPriority)))
          m == IntOf(Get(kwargs, "minutes_from_now", PyInt(DefaultMinutes)))
      IN  IF kwargs.title = Absent THEN Raise("KeyError")
          ELSE IF tt = <<"p","r","i","o","r","i","t","y">>
          THEN IF p.ok THEN Ok(PriorityTask(id, kwargs.title, p.val, now)) ELSE p
          ELSE IF tt = <<"d","e","a","d","l","i","n","e">>
          THEN IF m.ok THEN Ok(DeadlineTask(id, kwargs.title, m.val, now)) ELSE m
          ELSE Ok(SimpleTask(id, kwargs.title, now))

(* ----------------------------- repository ------------------------------ *)

\* add that keeps the new task alone
RepoAddReplace(tasks, task) == <<task>>

\* add that puts the task in front of the stored ones
RepoAddFront(tasks, task) == <<task>> \o tasks

\* TaskRepository.add
RepoAdd(tasks, task) == Append(tasks, task)

\* get_all that hands out the repository's own list
GetAllShared(tasks) == [list |-> tasks, same |-> TRUE]

\* TaskRepository.get_all: a new list object holding the same tasks; `same`
\* tells whether the list handed out is the repository's own list object
GetAll(tasks) == [list |-> tasks, same |-> FALSE]

\* TaskRepository.count
RepoCount(tasks) == Len(tasks)

\* create_task that stores a task before the factory has made it
ManagerCreateTaskStoreFirst(tasks, task_type, kwargs, clock) ==
    LET made == FactoryCreateTask(task_type, kwargs, Len(tasks) + 1, clock)
    IN  IF made.ok
        THEN [tasks |-> RepoAdd(tasks, made.val), ok |-> TRUE, task |-> made.val]
        ELSE [tasks |-> RepoAdd(tasks, Task("Task", Len(tasks) + 1, kwargs.title, clock)),
              ok |-> FALSE, err |-> made.err]

\* TaskManager.create_task: the factory first, then the repository
ManagerCreateTask(tasks, task_type, kwargs, clock) ==
    LET made == FactoryCreateTask(task_type, kwargs, Len(tasks) + 1, clock)
    IN  IF made.ok
        THEN [tasks |-> RepoAdd(tasks, made.val), ok |-> TRUE, task |-> made.val]
        ELSE [tasks |-> tasks, ok |-> FALSE, err |-> made.err]

(* --------------------------- sort strategies --------------------------- *)

\* sorted that sorts ascending and turns the result round when reverse is set
SortedThenReversed(tasks, keys, reverse) ==
    LET n == Len(tasks)
        before(j, i) == keys[j] < keys[i] \/ (keys[j] = keys[i] /\ j < i)
        rank(i) == Cardinality({j \in 1..n : before(j, i)}) + 1
        up == [p \in 1..n |-> tasks[CHOOSE i \in 1..n : rank(i) = p]]
    IN  IF reverse THEN [p \in 1..n |-> up[n + 1 - p]] ELSE up

\* the builtin sorted(tasks, key=..., reverse=...): stable in both
\* directions; keys[i] is the key of tasks[i]
Sorted(tasks, keys, reverse) ==
    LET n == Len(tasks)
        before(j, i) ==
            \/ IF reverse THEN keys[j] > keys[i] ELSE keys[j] < keys[i]
            \/ keys[j] = keys[i] /\ j < i
        rank(i) == Cardinality({j \in 1..n : before(j, i)}) + 1
    IN  [p \in 1..n |-> tasks[CHOOSE i \in 1..n : rank(i) = p]]

\* priority_key
PriorityKey(task) == IF HasAttr(task, "priority") THEN task.priority ELSE 0

\* deadline_key
DeadlineKey(task) == IF HasAttr(task, "deadline") THEN task.deadline ELSE FarFuture

\* PrioritySortStrategy.sort
PrioritySort(tasks) ==
    Sorted(tasks, [i \in 1..Len(tasks) |-> PriorityKey(tasks[i])], TRUE)

\* DeadlineSortStrategy.sort
DeadlineSort(tasks) ==
    Sorted(tasks, [i \in 1..Len(tasks) |-> DeadlineKey(tasks[i])], FALSE)

\* CreationSortStrategy.sort
CreationSort(tasks) ==
    Sorted(tasks, [i \in 1..Len(tasks) |-> tasks[i].created_at], TRUE)

\* DefaultSortStrategy.sort
DefaultSort(tasks) == tasks

\* the keys of TaskSorter._strategies
KeyPriority == <<"p","r","i","o","r","i","t","y">>
KeyDeadline == <<"d","e","a","d","l","i","n","e">>
KeyCreation == <<"c","r","e","a","t","i","o","n">>
KeyDefault == <<"d","e","f","a","u","l","t">>

\* TaskSorter._strategies.get: the strategy object under a key, named by its
\* class, or None
StrategiesGet(key) ==
    CASE key = KeyPriority -> "PrioritySortStrategy"
      [] key = KeyDeadline -> "DeadlineSortStrategy"
      [] key = KeyCreation -> "CreationSortStrategy"
      [] key = KeyDefault -> "DefaultSortStrategy"
      [] OTHER -> "None"

\* set_strategy that looks the name up as it was given
SetStrategyAsGiven(strategy_name) ==
    LET strategy == StrategiesGet(strategy_name)
    IN  IF strategy = "None" THEN StrategiesGet(KeyDefault) ELSE strategy

\* TaskSorter.set_strategy: the new value of TaskSorter._strategy
SetStrategy(strategy_name) ==
    LET strategy == StrategiesGet(StrLower(strategy_name))
    IN  IF strategy = "None" THEN StrategiesGet(KeyDefault) ELSE strategy

\* TaskSorter.sort
SorterSort(strategy, tasks) ==
    CASE strategy = "PrioritySortStrategy" -> PrioritySort(tasks)
      [] strategy = "DeadlineSortStrategy" -> DeadlineSort(tasks)
      [] strategy = "CreationSortStrategy" -> CreationSort(tasks)
      [] OTHER -> DefaultSort(tasks)

\* TaskSorter.get_current_strategy_name
GetName(strategy) ==
    CASE strategy = "PrioritySortStrategy" -> KeyPriority
      [] strategy = "DeadlineSortStrategy" -> KeyDeadline
      [] strategy = "CreationSortStrategy" -> KeyCreation
      [] OTHER -> KeyDefault

\* TaskSorter.get_available_strategies
GetAvailableStrategies == <<KeyPriority, KeyDeadline, KeyCreation, KeyDefault>>

(* ------------------------------- inputs -------------------------------- *)

W == PyText("Write report")

Req(title, task_type, priority, minutes_from_now) ==
    [title |-> title, task_type |-> task_type, priority |-> priority,
     minutes_from_now |-> minutes_from_now]

TPriority == PyStr(KeyPriority)
TDeadline == PyStr(KeyDeadline)
TSimple == PyStr(<<"s","i","m","p","l","e">>)

\* the request bodies POSTed to /tasktrack/deploy
DeployRequests ==
    { Req(Absent, Absent, Absent, Absent),
      Req(W, TSimple, Absent, Absent),
      Req(W, TPriority, PyInt(5), Absent),
      Req(W, PyStr(<<"P","R","I","O","R","I","T","Y">>), PyInt(3), Absent),
      Req(W, TPriority, Absent, Absent),
      Req(W, TPriority, PyFloat(0 - 15), Absent),
      Req(W, TPriority, PyStr(<<" ","5"," ">>), Absent),
      Req(W, TPriority, PyStr(<<"2",".","5">>), Absent),
      Req(W, TPriority, PyStr(<<"a","b","c">>), Absent),
      Req(W, TPriority, PyNone, Absent),
      Req(W, TPriority, PyBool(TRUE), PyStr(<<"a","b","c">>)),
      Req(W, TSimple, PyStr(<<"a","b","c">>), Absent),
      Req(W, PyStr(<<"u","r","g","e","n","t">>), PyInt(5), PyInt(10)),
      Req(W, PyStr(<<>>), Absent, Absent),
      Req(W, PyNone, Absent, Absent),
      Req(W, PyInt(5), Absent, Absent),
      Req(Absent, TDeadline, Absent, Absent),
      Req(Absent, TPriority, PyStr(<<"a","b","c">>), Absent),
      Req(W, PyStr(<<"D","e","a","d","l","i","n","e">>), Absent, PyInt(10)),
      Req(W, TDeadline, Absent, PyFloat(105)),
      Req(W, TDeadline, PyStr(<<"a","b","c">>), PyStr(<<"a","b","c">>)) }

\* the request bodies POSTed while the tasks are being listed
ListedRequests ==
    { Req(Absent, Absent, Absent, Absent),
      Req(W, TPriority, PyInt(1), Absent),
      Req(W, TPriority, PyInt(5), Absent),
      Req(W, TPriority, PyInt(3), Absent),
      Req(W, TPriority, PyInt(0 - 1), Absent),
      Req(W, TPriority, PyStr(<<"a","b","c">>), Absent),
      Req(W, TDeadline, Absent, PyInt(10)),
      Req(W, TDeadline, Absent, PyInt(FarFuture + 1440)) }

\* the direct calls task_manager.create_task(task_type, **kwargs)
ManagerRequests ==
    { Req(Absent, TSimple, Absent, Absent),
      Req(Absent, TPriority, PyStr(<<"a","b","c">>), Absent),
      Req(W, TPriority, Absent, Absent),
      Req(W, PyNone, PyInt(5), Absent) }

\* the sort_by query parameters of GET /tasktrack/tasks
SortKeys ==
    { KeyPriority, <<"P","r","i","o","r","i","t","y">>, KeyDeadline, <<"C","R","E","A","T","I","O","N">>, KeyCreation, KeyDefault,
      <<" ","p","r","i","o","r","i","t","y">>, <<"n","a","m","e">>, <<>> }

\* what a caller may do to a list it was handed
Mutations == {"append", "pop", "reverse", "clear"}

Reverse(s) == [i \in 1..Len(s) |-> s[Len(s) + 1 - i]]

\* list.append / list.pop / list.reverse / list.clear
Mutate(list, m) ==
    CASE m = "append" -> Append(list, SimpleTask(0, W, 0))
      [] m = "pop" -> IF list = <<>> THEN list ELSE SubSeq(list, 1, Len(list) - 1)
      [] m = "reverse" -> Reverse(list)
      [] OTHER -> <<>>

\* the request bodies POSTed while listings run side by side
ConcurrentRequests ==
    { Req(W, TPriority, PyInt(1), Absent),
      Req(W, TPriority, PyInt(5), Absent),
      Req(W, TDeadline, Absent, PyInt(10)) }

\* the sort_by query parameters of listings that run side by side
ConcurrentSortKeys == { KeyPriority, <<"D","e","a","d","l","i","n","e">>, <<"n","a","m","e">> }

\* the threads of the server that serve GET /tasktrack/tasks
Threads == {"t1", "t2"}

\* a thread that is in no call of list_tasks
Idle == [pc |-> "idle"]

(* ------------------------------- state --------------------------------- *)

VARIABLES
    _tasks,     \* TaskRepository._tasks of the shared task_manager
    _strategy,  \* TaskSorter._strategy of the shared facade
    now,        \* what datetime.utcnow() returns next
    deployed,   \* deploy_activity calls that returned so far
    last,       \* the last call made and what it returned or raised
    calls       \* the list_tasks call each serving thread is in

vars == <<_tasks, _strategy, now, deployed, last, calls>>

\* task_manager = TaskManager(); tasktrack_facade = TaskTrackFacade()
Init ==
    /\ _tasks = <<>>
    /\ _strategy = SetStrategy(KeyDefault)
    /\ now = 0
    /\ deployed = 0
    /\ last = [op |-> "init"]
    /\ calls = [t \in Threads |-> Idle]

\* deploy_activity that passes the title on as it came
DeployKwargsNoDefaultTitle(data) ==
    [title |-> data.title,
     priority |-> Get(data, "priority", PyInt(DefaultPriority)),
     minutes_from_now |-> Get(data, "minutes_from_now", PyInt(DefaultMinutes))]

\* the keyword arguments deploy_activity passes on
DeployKwargs(data) ==
    [title |-> Get(data, "title", DefaultTitle),
     priority |-> Get(data, "priority", PyInt(DefaultPriority)),
     minutes_from_now |-> Get(data, "minutes_from_now", PyInt(DefaultMinutes))]

\* TaskTrackFacade.deploy_activity
DeployActivity(requests) ==
    /\ Len(_tasks) < MaxTasks
    /\ \E data \in requests :
       \E r \in {ManagerCreateTask(_tasks, Get(data, "task_type", TSimple),
                                   DeployKwargs(data), now)} :
          /\ _tasks' = r.tasks
          /\ now' = IF r.ok THEN now + 1 ELSE now
          /\ deployed' = IF r.ok THEN deployed + 1 ELSE deployed
          /\ last' = IF r.ok
                     THEN [op |-> "deploy_activity", data |-> data, raised |-> "",
                           status |-> "ok", created_task |-> ToDict(r.task)]
                     ELSE [op |-> "deploy_activity", data |-> data, raised |-> r.err]
          /\ UNCHANGED <<_strategy, calls>>

\* a direct call of TaskManager.create_task
CreateTask ==
    /\ Len(_tasks) < MaxTasks
    /\ \E req \in ManagerRequests :
       \E r \in {ManagerCreateTask(_tasks, req.task_type,
                                   [title |-> req.title, priority |-> req.priority,
                                    minutes_from_now |-> req.minutes_from_now], now)} :
          /\ _tasks' = r.tasks
          /\ now' = IF r.ok THEN now + 1 ELSE now
          /\ last' = IF r.ok
                     THEN [op |-> "create_task", data |-> req, raised |-> "",
                           task |-> r.task]
                     ELSE [op |-> "create_task", data |-> req, raised |-> r.err]
          /\ UNCHANGED <<_strategy, deployed, calls>>

\* TaskTrackFacade.list_tasks
ListTasks ==
    \E sort_by \in SortKeys :
    \E strategy \in {SetStrategy(sort_by)} :
    \E all_tasks \in {GetAll(_tasks)} :
    \E sorted_tasks \in {SorterSort(strategy, all_tasks.list)} :
    \E tasks_dict \in {[i \in 1..Len(sorted_tasks) |-> ToDict(sorted_tasks[i])]} :
        /\ _strategy' = strategy
        /\ last' = [op |-> "list_tasks", sort_by |-> sort_by,
                    sorted_tasks |-> sorted_tasks, tasks |-> tasks_dict,
                    count |-> Len(tasks_dict), sorted_by |-> GetName(strategy)]
        /\ UNCHANGED <<_tasks, now, deployed, calls>>

\* a caller takes task_manager.tasks (TaskManager.tasks -> get_all) and
\* changes the list it was handed
CallerMutatesTasks ==
    \E m \in Mutations :
    \E got \in {GetAll(_tasks)} :
    \E changed \in {Mutate(got.list, m)} :
        /\ _tasks' = IF got.same THEN changed ELSE _tasks
        /\ last' = [op |-> "tasks", mutation |-> m, list |-> changed]
        /\ UNCHANGED <<_strategy, now, deployed, calls>>

\* TaskTrackFacade.get_sort_strategies
GetSortStrategies ==
    /\ last' = [op |-> "get_sort_strategies",
                available_strategies |-> GetAvailableStrategies]
    /\ UNCHANGED <<_tasks, _strategy, now, deployed, calls>>

\* TaskTrackFacade.analytics_list and generate_analytics: fixed mock data
Analytics ==
    /\ last' = [op |-> "analytics"]
    /\ UNCHANGED <<_tasks, _strategy, now, deployed, calls>>

\* tasks are created, through the facade and directly
Next ==
    \/ DeployActivity(DeployRequests)
    \/ CreateTask
    \/ GetSortStrategies
    \/ Analytics

Spec == Init /\ [][Next]_vars

\* tasks are created through the facade, listed and read
NextListing ==
    \/ DeployActivity(ListedRequests)
    \/ ListTasks
    \/ CallerMutatesTasks
    \/ GetSortStrategies
    \/ Analytics

SpecListing == Init /\ [][NextListing]_vars

(* ---------------- list_tasks, statement by statement ------------------- *)
\* Each thread runs the statements of TaskTrackFacade.list_tasks in order on
\* the one shared facade; the threads take turns between statements.

\* a request arrives: list_tasks(sort_by) is entered
ListEnter(t) ==
    /\ calls[t].pc \in {"idle", "returned"}
    /\ \E sort_by \in ConcurrentSortKeys :
          calls' = [calls EXCEPT ![t] = [pc |-> "set_strategy", sort_by |-> sort_by]]
    /\ UNCHANGED <<_tasks, _strategy, now, deployed, last>>

\* self.sorter.set_strategy(sort_by)
ListSetStrategy(t) ==
    /\ calls[t].pc = "set_strategy"
    /\ _strategy' = SetStrategy(calls[t].sort_by)
    /\ calls' = [calls EXCEPT ![t] = [pc |-> "tasks", sort_by |-> calls[t].sort_by]]
    /\ UNCHANGED <<_tasks, now, deployed, last>>

\* all_tasks = task_manager.tasks
ListGetTasks(t) ==
    /\ calls[t].pc = "tasks"
    /\ calls' = [calls EXCEPT ![t] = [pc |-> "sort", sort_by |-> calls[t].sort_by,
                                       all_tasks |-> GetAll(_tasks).list]]
    /\ UNCHANGED <<_tasks, _strategy, now, deployed, last>>

\* sorted_tasks = self.sorter.sort(all_tasks); tasks_dict = [...]; applied
\* records the strategy object that self._strategy named when sort ran
ListSort(t) ==
    /\ calls[t].pc = "sort"
    /\ \E sorted_tasks \in {SorterSort(_strategy, calls[t].all_tasks)} :
          calls' = [calls EXCEPT ![t] =
                      [pc |-> "return", sort_by |-> calls[t].sort_by,
                       applied |-> _strategy, sorted_tasks |-> sorted_tasks,
                       tasks_dict |-> [i \in 1..Len(sorted_tasks) |->
                                          ToDict(sorted_tasks[i])]]]
    /\ UNCHANGED <<_tasks, _strategy, now, deployed, last>>

\* return {..., "sorted_by": self.sorter.get_current_strategy_name()}
ListReturn(t) ==
    /\ calls[t].pc = "return"
    /\ calls' = [calls EXCEPT ![t] =
                   [pc |-> "returned", sort_by |-> calls[t].sort_by,
                    applied |-> calls[t].applied,
                    sorted_tasks |-> calls[t].sorted_tasks,
                    response |-> [tasks |-> calls[t].tasks_dict,
                                  count |-> Len(calls[t].tasks_dict),
                                  sorted_by |-> GetName(_strategy)]]]
    /\ UNCHANGED <<_tasks, _strategy, now, deployed, last>>

\* tasks are deployed while the threads serve listings
NextConcurrent ==
    \/ DeployActivity(ConcurrentRequests)
    \/ \E t \in Threads :
          \/ ListEnter(t)
          \/ ListSetStrategy(t)
          \/ ListGetTasks(t)
          \/ ListSort(t)
          \/ ListReturn(t)

SpecConcurrent == Init /\ [][NextConcurrent]_vars

(* ------------------------------ properties ----------------------------- *)

Creates == {"deploy_activity", "create_task"}
Reads == {"list_tasks", "tasks", "get_sort_strategies", "analytics"}

IsPrefix(s, t) == Len(s) <= Len(t) /\ SubSeq(t, 1, Len(s)) = s

\* C1: whenever deploy_activity or TaskManager.create_task raises, the
\* repository's stored sequence and its count are what they were before the
\* call.
C1_CreationIsAtomic ==
    [][(last'.op \in Creates /\ last'.raised # "")
          => (_tasks' = _tasks /\ RepoCount(_tasks') = RepoCount(_tasks))]_vars

\* a deploy has failed on a coercion with tasks already stored
C1_Witness ==
    /\ last.op = "deploy_activity"
    /\ last.raised = "ValueError"
    /\ RepoCount(_tasks) = 2

\* C2: on a fresh manager driven through the facade, the repository holds as
\* many tasks as deploy_activity calls have succeeded, and list_tasks reports
\* that number as its count, for every sort_by, with as many tasks in its list.
C2_CountIsSuccessfulDeploys ==
    /\ RepoCount(_tasks) = deployed
    /\ last.op = "list_tasks" => (last.count = deployed /\ Len(last.tasks) = last.count)

\* two deploys have succeeded and the tasks were listed by priority
C2_Witness ==
    /\ last.op = "list_tasks"
    /\ last.sort_by = KeyPriority
    /\ deployed = 2

\* C3: every step leaves the stored sequence as a prefix of the new one; a
\* successful deploy adds exactly the created task at the end, no other step
\* adds any; the stored tasks are in the order of their creation.
C3_AppendOnly ==
    [][/\ IsPrefix(_tasks, _tasks')
       /\ IF last'.op = "deploy_activity" /\ last'.raised = ""
          THEN /\ Len(_tasks') = Len(_tasks) + 1
               /\ ToDict(_tasks'[Len(_tasks')]) = last'.created_task
               /\ _tasks'[Len(_tasks')].created_at = now
               /\ _tasks'[Len(_tasks')].done = FALSE
          ELSE _tasks' = _tasks
       /\ \A i, j \in 1..Len(_tasks') :
             i < j => /\ _tasks'[i].id < _tasks'[j].id
                      /\ _tasks'[i].created_at <= _tasks'[j].created_at]_vars

\* a third task has been stored behind two others
C3_Witness ==
    /\ last.op = "deploy_activity"
    /\ last.raised = ""
    /\ Len(_tasks) = 3
    /\ ToDict(_tasks[3]) = last.created_task
    /\ _tasks[1] # _tasks[3]

\* the same letters, whatever their case
SameLetter(c, d) ==
    c = d \/ \E k \in 1..26 : {c, d} = {UpperChars[k], LowerChars[k]}

CaseInsensitiveEq(a, b) ==
    Len(a) = Len(b) /\ \A i \in 1..Len(a) : SameLetter(a[i], b[i])

StrategyNames == {KeyPriority, KeyDeadline, KeyCreation, KeyDefault}

\* C4: list_tasks with a sort_by that matches none of priority, deadline,
\* creation, default (whatever the case of its letters) returns the tasks in
\* insertion order and reports sorted_by = "default"; with a sort_by that
\* matches one, sorted_by is that name in lower case.
C4_UnknownKeyIsDefault ==
    last.op = "list_tasks" =>
        IF \E k \in StrategyNames : CaseInsensitiveEq(last.sort_by, k)
        THEN /\ CaseInsensitiveEq(last.sort_by, last.sorted_by)
             /\ last.sorted_by \in StrategyNames
        ELSE /\ last.sorted_by = KeyDefault
             /\ last.sorted_tasks = _tasks
             /\ last.tasks = [i \in 1..Len(_tasks) |-> ToDict(_tasks[i])]

\* tasks that the priority order would move were listed under a key that
\* matches no strategy
C4_Witness ==
    /\ last.op = "list_tasks"
    /\ last.sort_by = <<" ","p","r","i","o","r","i","t","y">>
    /\ last.sorted_by = KeyDefault
    /\ Len(_tasks) >= 2
    /\ PrioritySort(_tasks) # _tasks

\* the priority a task counts with
EffectivePriority(task) == IF "priority" \in DOMAIN task THEN task.priority ELSE 0

SameTasks(s, t) ==
    /\ Len(s) = Len(t)
    /\ \A i \in 1..Len(t) : Cardinality({j \in 1..Len(s) : s[j] = t[i]}) = 1

C6_NoDeadlineLast ==
    (last.op = "list_tasks" /\ last.sorted_by = KeyDeadline) =>
        LET s == last.sorted_tasks
        IN  \A i, j \in 1..Len(s) :
              i < j => /\ ("deadline" \in DOMAIN s[i] /\ "deadline" \in DOMAIN s[j])
                            => s[i].deadline <= s[j].deadline
                       /\ ~("deadline" \notin DOMAIN s[i] /\ "deadline" \in DOMAIN s[j])

\* the request names the variant, whatever the case of its letters
Names(data, name) ==
    data.task_type.kind = "str" /\ CaseInsensitiveEq(data.task_type.s, name)

\* a title reaches the factory: the facade always passes one
Titled(l) == l.op = "deploy_activity" \/ l.data.title # Absent

\* text that reads as a whole number: blanks around an optional sign and digits
IsIntegerText(s) ==
    LET core == SelectSeq(s, LAMBDA c : c # " ")
        d == IF core # <<>> /\ Head(core) \in {"+", "-"} THEN Tail(core) ELSE core
    IN  d # <<>> /\ \A i \in 1..Len(d) : \E k \in 1..10 : DigitChars[k] = d[i]

\* null, or text that is no whole number (not numeric, or fractional)
NotIntegral(v) == v.kind = "none" \/ (v.kind = "str" /\ ~IsIntegerText(v.s))

\* a fractional number
Fractional(v) == v.kind = "float" /\ v.tenths % 10 # 0

CoercionErrors == {"ValueError", "TypeError"}

\* r is the float n/10 cut toward zero
Truncates(r, n) ==
    LET abs(x) == IF x < 0 THEN 0 - x ELSE x
    IN  /\ 10 * abs(r) <= abs(n) /\ abs(n) < 10 * (abs(r) + 1)
        /\ (n >= 0 => r >= 0) /\ (n <= 0 => r <= 0)

\* C7, as claimed: a request whose priority or minutes_from_now is not
\* numeric or is fractional fails with a coercion error, whatever its task_type.
C7_BadNumberAlwaysFails ==
    (last.op \in Creates /\ \E v \in {last.data.priority, last.data.minutes_from_now} :
                               NotIntegral(v) \/ Fractional(v))
        => last.raised \in CoercionErrors

\* C7, amended: only the parameter of the variant the request names is
\* coerced.  When it is null or text that is no whole number the call raises
\* and stores nothing; a fractional number is cut toward zero; an absent
\* parameter counts as priority 1, 30 minutes; a value the variant does not
\* use is never coerced.
C7_UsedNumberIsCoerced ==
    [][last'.op \in Creates =>
        LET d == last'.data
            used == IF Names(d, KeyPriority) THEN d.priority
                    ELSE IF Names(d, KeyDeadline) THEN d.minutes_from_now
                    ELSE Absent
            new == _tasks'[Len(_tasks')]
            number == IF Names(d, KeyPriority) THEN new.priority
                      ELSE new.deadline - new.created_at
        IN  /\ NotIntegral(used) =>
                  /\ last'.raised # "" /\ _tasks' = _tasks
                  /\ Titled(last') => last'.raised \in CoercionErrors
            /\ (~NotIntegral(used) /\ Titled(last')
                   /\ d.task_type.kind \in {"str", "none", "absent"}) =>
                  /\ last'.raised = "" /\ Len(_tasks') = Len(_tasks) + 1
                  /\ used.kind = "float" => Truncates(number, used.tenths)
                  /\ (used = Absent /\ Names(d, KeyPriority)) => number = 1
                  /\ (used = Absent /\ Names(d, KeyDeadline)) => number = 30]_vars

\* a priority task was asked for with the priority "2.5", and two tasks are stored
C7_Witness ==
    /\ last.op = "deploy_activity"
    /\ Names(last.data, KeyPriority)
    /\ last.data.priority = PyStr(<<"2",".","5">>)
    /\ last.raised = "ValueError"
    /\ Len(_tasks) = 2

\* C8: with a title, create_task returns a SimpleTask for simple, and when it
\* returns for priority or deadline, that variant, whatever the case of the
\* letters; for any other text, the empty text, null or no task_type it
\* returns, without raising, a SimpleTask that has neither a priority nor a
\* deadline.
C8_VariantByType ==
    (last.op \in Creates /\ Titled(last)) =>
        LET d == last.data
            new == _tasks[Len(_tasks)]
        IN  /\ Names(d, KeyPriority) =>
                  (last.raised = "" =>
                      new.cls = "PriorityTask" /\ "priority" \in DOMAIN new)
            /\ Names(d, KeyDeadline) =>
                  (last.raised = "" =>
                      new.cls = "DeadlineTask" /\ "deadline" \in DOMAIN new)
            /\ (~Names(d, KeyPriority) /\ ~Names(d, KeyDeadline)
                   /\ d.task_type.kind \in {"str", "none", "absent"}) =>
                  /\ last.raised = ""
                  /\ new.cls = "SimpleTask"
                  /\ DOMAIN new \cap {"priority", "deadline"} = {}
                  /\ last.op = "deploy_activity" =>
                        /\ last.created_task.type = "SimpleTask"
                        /\ DOMAIN last.created_task \cap {"priority", "deadline"} = {}

\* a task of the unknown type "urgent" was asked for with a priority and a
\* number of minutes
C8_Witness ==
    /\ last.op = "deploy_activity"
    /\ last.data.task_type = PyStr(<<"u","r","g","e","n","t">>)
    /\ last.data.priority = PyInt(5)
    /\ last.data.minutes_from_now = PyInt(10)
    /\ last.raised = ""

\* C9, as claimed: deploy_activity without a title raises a missing-field
\* error.
C9_NoTitleRaises ==
    (last.op = "deploy_activity" /\ last.data.title = Absent) => last.raised = "KeyError"

\* C9, amended: deploy_activity without a title never raises a missing-field
\* error: it passes the default title on, and the task it stores bears it
\* (it does store one when priority and minutes_from_now are absent too);
\* TaskManager.create_task called without a title raises the missing-field
\* error and stores nothing.
C9_DefaultTitle ==
    [][(last'.op \in Creates /\ last'.data.title = Absent) =>
        IF last'.op = "deploy_activity"
        THEN /\ last'.raised # "KeyError"
             /\ (last'.data.priority = Absent /\ last'.data.minutes_from_now = Absent
                    /\ last'.data.task_type.kind \in {"str", "none", "absent"})
                   => last'.raised = ""
             /\ last'.raised = "" =>
                   /\ _tasks' = Append(_tasks, _tasks'[Len(_tasks')])
                   /\ _tasks'[Len(_tasks')].title = PyText("Tarefa inicial do plano")
                   /\ last'.created_task.title = PyText("Tarefa inicial do plano")
             /\ last'.raised # "" => _tasks' = _tasks
        ELSE /\ last'.raised = "KeyError"
             /\ _tasks' = _tasks]_vars

\* a deploy without a title has stored a task behind another
C9_Witness ==
    /\ last.op = "deploy_activity"
    /\ last.data.title = Absent
    /\ last.raised = ""
    /\ Len(_tasks) = 2
    /\ _tasks[2].title = DefaultTitle

\* C10: a step that lists the tasks, or in which a caller changes the list
\* that get_all handed out, leaves the stored sequence as it was, and a
\* listing under "default" shows the stored tasks in the order they were
\* created.
C10_ReadsLeaveRepository ==
    [][/\ last'.op \in Reads => _tasks' = _tasks
       /\ (last'.op = "list_tasks" /\ last'.sort_by = KeyDefault) =>
             /\ last'.sorted_tasks = _tasks
             /\ \A i \in 1..Len(_tasks) : last'.sorted_tasks[i].id = i]_vars

\* a caller has reversed the list of two or more tasks it was handed
C10_Witness ==
    /\ last.op = "tasks"
    /\ last.mutation = "reverse"
    /\ Len(_tasks) >= 2
    /\ last.list # _tasks
    /\ _strategy = "PrioritySortStrategy"

\* the strategy name a sort_by resolves to
Resolution(sort_by) ==
    IF \E k \in StrategyNames : CaseInsensitiveEq(sort_by, k)
    THEN CHOOSE k \in StrategyNames : CaseInsensitiveEq(sort_by, k)
    ELSE KeyDefault

\* C11: whatever the interleaving of the statements of concurrent list_tasks
\* calls on the shared facade, the sorted_by of each response names the
\* strategy that ordered the tasks of that response, and is the resolution of
\* the sort_by of that request.
C11_ResponseNamesOwnStrategy ==
    \A t \in Threads :
        calls[t].pc = "returned" =>
            /\ calls[t].response.sorted_by = GetName(calls[t].applied)
            /\ calls[t].response.sorted_by = Resolution(calls[t].sort_by)

====
